---- MODULE Spec2Model ----
(***************************************************************************)
(* A model of two parts of medtimeline:                                    *)
(*   - CardcontainerComponent (src/unnamed/part_000): the ordered list of  *)
(*     displayed cards, drag reordering, deletion with undo, event lines;  *)
(*   - FhirHttpService (src/unnamed/part_001): the promise chains of the   *)
(*     data methods.                                                       *)
(* Array indices are JavaScript indices (0-based); At, IndexOf and Splice  *)
(* translate them to TLA+ sequences.                                       *)
(***************************************************************************)
EXTENDS Integers, Sequences, FiniteSets, TLC

(* ------------------------------ bounds -------------------------------- *)
\* The number of card objects ever created (uuid() calls), constructor included.
MaxUuid == 4
\* The number of handler runs (user events, dialog and snack bar callbacks) in a
\* behaviour.
MaxSteps == 5
\* The number of FhirHttpService method calls in a behaviour.
MaxCalls == 1
\* The longest result list a fetchAll resolves to.
MaxResults == 2

(* --------------------------- JavaScript values ------------------------ *)
Undefined == "undefined"
Null == "null"
\* The undefined value of a card's value field, and the values a card passes
\* with its delete event, as tagged records.
UndefinedValue == [type |-> "undefined"]

Min(a, b) == IF a < b THEN a ELSE b
Max(a, b) == IF a > b THEN a ELSE b

\* Array.prototype.indexOf: the first index holding x, -1 when there is none.
IndexOf(s, x) ==
    IF \E i \in 1..Len(s) : s[i] = x
    THEN (CHOOSE i \in 1..Len(s) : s[i] = x /\ \A j \in 1..(i - 1) : s[j] # x) - 1
    ELSE -1

\* array[i] of an array of card refs: ref 0 stands for undefined (no card).
At(s, i) == IF i \in 0..(Len(s) - 1) THEN s[i + 1] ELSE 0

\* Array.prototype.splice(start, deleteCount, ...items): a negative start counts
\* from the end, a start beyond the end is the end, deleteCount is clamped.
Splice(s, start, deleteCount, items) ==
    LET len == Len(s)
        st == IF start < 0 THEN Max(len + start, 0) ELSE Min(start, len)
        dc == Min(Max(deleteCount, 0), len - st)
    IN SubSeq(s, 1, st) \o items \o SubSeq(s, st + dc + 1, len)

\* Array.prototype.sort((a, b) => a - b) of a set of numbers.
RECURSIVE SortAsc(_)
SortAsc(S) ==
    IF S = {} THEN <<>>
    ELSE LET m == CHOOSE x \in S : \A y \in S : x <= y
         IN <<m>> \o SortAsc(S \ {m})

\* Array.prototype.shift: drops the first element, if any.
Shift_Keep(s) == s
Shift(s) == IF s = <<>> THEN <<>> ELSE Tail(s)

\* String.prototype.replace(ch, ''): removes the first occurrence of ch.
ReplaceFirst(s, ch) ==
    LET i == IndexOf(s, ch) IN IF i = -1 THEN s ELSE Splice(s, i, 1, <<>>)

(* ------------------------------ card data ----------------------------- *)
\* ResourceCodeManager.getDisplayGroupMapping(), flattened: each concept has a
\* label and, per resource code group, its showByDefault flag.
OriginalConcepts ==
    << [label |-> "Vitals", resourceCodeGroups |-> <<FALSE, TRUE>>],
       [label |-> "Labs", resourceCodeGroups |-> <<FALSE>>] >>

Labels == {OriginalConcepts[i].label : i \in 1..Len(OriginalConcepts)}

\* The values uuid() returns, in the order of the calls: each is fresh.
UuidPool ==
    <<"u1", "u2", "u3", "u4", "u5", "u6", "u7", "u8", "u9", "u10", "u11", "u12",
      "u13", "u14", "u15", "u16">>

\* Color.hex() of the two annotation colours, as character sequences.
HexRed == <<"#", "F", "F", "0", "0", "0", "0">>
HexBlue == <<"#", "0", "0", "0", "0", "F", "F">>

AnnA == [title |-> "a", color |-> HexRed]
AnnB == [title |-> "b", color |-> HexBlue]

\* CustomizableData values: annotations is a Map from a time (a number) to an
\* annotation.
DataEmpty == [type |-> "CustomizableData", annotations |-> [t \in {} |-> AnnA]]
DataOne == [type |-> "CustomizableData", annotations |-> [t \in {2} |-> AnnA]]
DataTwo ==
    [type |-> "CustomizableData",
     annotations |-> [t \in {1, 3} |-> IF t = 1 THEN AnnA ELSE AnnB]]
DataThree ==
    [type |-> "CustomizableData",
     annotations |-> [t \in {1, 2, 3} |-> IF t = 2 THEN AnnA ELSE AnnB]]
CustomizableDatas == {DataEmpty, DataOne, DataTwo, DataThree}

VARIABLES
    cards,                     \* the card objects ever created: ref -> [id, concept, value]
    displayedConcepts,         \* the displayed cards, as refs into cards
    recentlyRemoved,           \* Map<number, card>: index -> ref
    dialogs,                   \* open delete dialogs: the afterClosed closures, each
                               \* with the state its click found (history)
    snackBar,                  \* whether the snack bar with the Undo action is open
    eventsForCustomTimelines,  \* Map in insertion order: <<timeline id, event lines>>
    eventlines,                \* the aggregated event lines
    lastAction,                \* history: the handler that ran last
    undoBase,                  \* history: the list before the last confirmed deletion
    lastDeleted,               \* history: the card of the last confirmed deletion
    steps,                     \* the number of handler runs so far
    smartApiPromise,           \* state of FhirHttpService.smartApiPromise
    calls,                     \* the service method calls made, with their promises
    requests,                  \* the API requests issued (fetchAll, read, create)
    errorLog                   \* what debugService.logError was called with

cardVars == <<cards, displayedConcepts, recentlyRemoved, dialogs, snackBar,
              eventsForCustomTimelines, eventlines, lastAction, undoBase,
              lastDeleted>>

fhirVars == <<smartApiPromise, calls, requests, errorLog>>

vars == <<cardVars, steps, fhirVars>>

(* --------------------------- card container --------------------------- *)
\* displayedConcepts.map(x => x.id)
IdsOf(cs, dc) == [i \in 1..Len(dc) |-> IF dc[i] = 0 THEN Undefined ELSE cs[dc[i]].id]

DisplayedIds == {IdsOf(cards, displayedConcepts)[i] : i \in 1..Len(displayedConcepts)}

\* uuid(): the next unused value of the pool.
uuid(cs) == UuidPool[Len(cs) + 1]

\* id ? (this.displayedConcepts.map(x => x.id).indexOf(id) + 1) : 0
InsertIndex_Above(cs, dc, id) ==
    IF id # Undefined /\ id # "" THEN IndexOf(IdsOf(cs, dc), id) ELSE 0
InsertIndex(cs, dc, id) ==
    IF id # Undefined /\ id # "" THEN IndexOf(IdsOf(cs, dc), id) + 1 ELSE 0

\* The three add methods on a state st = [cards, displayed]: a new card object
\* with a fresh id, spliced in at the insert index.
addTextbox(st, id) ==
    LET index == InsertIndex(st.cards, st.displayed, id)
        card == [id |-> uuid(st.cards), concept |-> "textbox", value |-> UndefinedValue]
    IN [cards |-> Append(st.cards, card),
        displayed |-> Splice(st.displayed, index, 0, <<Len(st.cards) + 1>>)]

addCustomTimeline(st, id) ==
    LET index == InsertIndex(st.cards, st.displayed, id)
        card == [id |-> uuid(st.cards), concept |-> "customTimeline",
                 value |-> UndefinedValue]
    IN [cards |-> Append(st.cards, card),
        displayed |-> Splice(st.displayed, index, 0, <<Len(st.cards) + 1>>)]

\* originalConcepts.find(obj => obj.label === label): the concept is kept by
\* its label, undefined when no concept has the label.
FindConcept(label) == IF label \in Labels THEN label ELSE Undefined

addConceptCard(st, label, id) ==
    LET graphCardValue == FindConcept(label)
        index == InsertIndex(st.cards, st.displayed, id)
        card == [id |-> uuid(st.cards), concept |-> graphCardValue,
                 value |-> UndefinedValue]
    IN [cards |-> Append(st.cards, card),
        displayed |-> Splice(st.displayed, index, 0, <<Len(st.cards) + 1>>)]

\* concept.resourceCodeGroups.some(x => x.showByDefault)
ShowByDefault_Every(concept) ==
    \A i \in 1..Len(concept.resourceCodeGroups) : concept.resourceCodeGroups[i]
ShowByDefault(concept) ==
    \E i \in 1..Len(concept.resourceCodeGroups) : concept.resourceCodeGroups[i]

\* The constructor's loop over originalConcepts, from the i-th concept on.
RECURSIVE PushDefaults(_, _)
PushDefaults(st, i) ==
    IF i > Len(OriginalConcepts) THEN st
    ELSE LET concept == OriginalConcepts[i]
             card == [id |-> uuid(st.cards), concept |-> concept.label,
                      value |-> UndefinedValue]
         IN IF ShowByDefault(concept)
            THEN PushDefaults([cards |-> Append(st.cards, card),
                               displayed |-> Append(st.displayed, Len(st.cards) + 1)],
                              i + 1)
            ELSE PushDefaults(st, i + 1)

\* The state the constructor leaves.
Constructed ==
    PushDefaults(
        addCustomTimeline(addTextbox([cards |-> <<>>, displayed |-> <<>>], Undefined),
                          Undefined),
        1)

\* getSiblingIdx: the index of the card below the dropped card's new place.
getSiblingIdx_Last(cs, dc, sibling) ==
    IF sibling = Null THEN Len(dc) - 1 ELSE IndexOf(IdsOf(cs, dc), sibling)
getSiblingIdx(cs, dc, sibling) ==
    IF sibling = Null THEN Len(dc) ELSE IndexOf(IdsOf(cs, dc), sibling)

DropResult_NoAdjust(cs, dc, el, sibling) ==
    LET originalIndex == IndexOf(IdsOf(cs, dc), el)
        siblingIndex == getSiblingIdx(cs, dc, sibling)
        elementDisplayed == At(dc, originalIndex)
        inserted == Splice(dc, siblingIndex, 0, <<elementDisplayed>>)
    IN Splice(inserted, originalIndex, 1, <<>>)

\* The drop handler: the list after the card with id el was dropped above the
\* card with id sibling.
DropResult(cs, dc, el, sibling) ==
    LET originalIndex == IndexOf(IdsOf(cs, dc), el)
        siblingIndex == getSiblingIdx(cs, dc, sibling)
        elementDisplayed == At(dc, originalIndex)
        inserted == Splice(dc, siblingIndex, 0, <<elementDisplayed>>)
        adjusted == IF siblingIndex < originalIndex THEN originalIndex + 1
                    ELSE originalIndex
    IN Splice(inserted, adjusted, 1, <<>>)

\* 'color' + color.hex().replace('#', '')
ColorClass(color) == <<"c", "o", "l", "o", "r">> \o ReplaceFirst(color, "#")

\* The event lines updateEventLines computes from $event.data.
EventLinesOf(data) ==
    LET times == IF data.type = "CustomizableData"
                 THEN SortAsc(DOMAIN data.annotations) ELSE <<>>
        shifted == Shift(times)
    IN [i \in 1..Len(shifted) |->
          [value |-> shifted[i],
           text |-> data.annotations[shifted[i]].title,
           class |-> ColorClass(data.annotations[shifted[i]].color)]]

\* Map.has / Map.set of eventsForCustomTimelines: set keeps the position of a
\* key the map holds and appends a new key.
MapHas(m, k) == \E i \in 1..Len(m) : m[i].id = k
MapSet_Append(m, k, v) == Append(m, [id |-> k, lines |-> v])
MapSet(m, k, v) ==
    IF MapHas(m, k)
    THEN [i \in 1..Len(m) |-> IF m[i].id = k THEN [id |-> k, lines |-> v] ELSE m[i]]
    ELSE Append(m, [id |-> k, lines |-> v])

\* The concatenation of all the map's values, in the map's order.
RECURSIVE AllEvents(_)
AllEvents(m) == IF m = <<>> THEN <<>> ELSE Head(m).lines \o AllEvents(Tail(m))

\* updateEventLines($event): the map with the event lines of $event.data set
\* for $event.id, and the aggregated event lines.
updateEventLines_Stale(m, id, data) ==
    [events |-> MapSet(m, id, EventLinesOf(data)), lines |-> AllEvents(m)]
updateEventLines(m, id, data) ==
    LET events == MapSet(m, id, EventLinesOf(data))
    IN [events |-> events, lines |-> AllEvents(events)]

RECURSIVE UndoLoop_Push(_, _, _, _)
UndoLoop_Push(cs, rr, keys, st) ==
    IF keys = <<>> THEN st
    ELSE LET index == Head(keys)
             displayed == Append(st.displayed, rr[index])
             ref == rr[index]
             upd == updateEventLines(st.events, cs[ref].id, cs[ref].value)
         IN IF cs[ref].concept = "customTimeline"
            THEN UndoLoop_Push(cs, rr, Tail(keys),
                               [displayed |-> displayed, events |-> upd.events,
                                lines |-> upd.lines])
            ELSE UndoLoop_Push(cs, rr, Tail(keys),
                               [displayed |-> displayed, events |-> st.events,
                                lines |-> st.lines])

\* The undo handler's loop over the sorted keys of recentlyRemoved, on
\* st = [displayed, events, lines]. Reading .concept of undefined throws, which
\* ends the handler after the splice.
RECURSIVE UndoLoop(_, _, _, _)
UndoLoop(cs, rr, keys, st) ==
    IF keys = <<>> THEN st
    ELSE LET index == Head(keys)
             displayed == Splice(st.displayed, index, 0, <<rr[index]>>)
             ref == At(displayed, index)
             upd == updateEventLines(st.events, cs[ref].id, cs[ref].value)
         IN IF ref = 0
            THEN [displayed |-> displayed, events |-> st.events, lines |-> st.lines]
            ELSE IF cs[ref].concept = "customTimeline"
            THEN UndoLoop(cs, rr, Tail(keys),
                          [displayed |-> displayed, events |-> upd.events,
                           lines |-> upd.lines])
            ELSE UndoLoop(cs, rr, Tail(keys),
                          [displayed |-> displayed, events |-> st.events,
                           lines |-> st.lines])

\* recentlyRemoved.clear(); recentlyRemoved.set(index, concept)
RemovedEntry_NoClear(rr, index, concept) ==
    [i \in DOMAIN rr \cup {index} |-> IF i = index THEN concept ELSE rr[i]]
RemovedEntry_OffByOne(rr, index, concept) == [i \in {index + 1} |-> concept]
RemovedEntry(rr, index, concept) == [i \in {index} |-> concept]

\* The value a card passes with its delete event: a custom timeline passes its
\* data; what another card passes is not read again and is kept undefined.
EventValues(concept) ==
    IF concept = "customTimeline" THEN {DataThree} ELSE {UndefinedValue}

\* The ids the add methods are called with: a displayed card's, or none.
AddIds == DisplayedIds \cup {Undefined}

CanAdd == Len(cards) < MaxUuid

\* MatDialog opens the delete dialog modal: no dialog is open.
NoDialog == dialogs = <<>>

InitCards ==
    /\ cards = Constructed.cards
    /\ displayedConcepts = Constructed.displayed
    /\ recentlyRemoved = [k \in {} |-> 0]
    /\ dialogs = <<>>
    /\ snackBar = FALSE
    /\ eventsForCustomTimelines = <<>>
    /\ eventlines = <<>>
    /\ lastAction = [op |-> "constructor", ref |-> 0, arg |-> Undefined]
    /\ undoBase = <<>>
    /\ lastDeleted = 0
    /\ steps = 0

AddTextbox(id) ==
    /\ CanAdd
    /\ LET st == addTextbox([cards |-> cards, displayed |-> displayedConcepts], id)
       IN /\ cards' = st.cards
          /\ displayedConcepts' = st.displayed
    /\ lastAction' = [op |-> "addTextbox", ref |-> Len(cards) + 1, arg |-> id]
    /\ undoBase' = <<>>
    /\ UNCHANGED <<recentlyRemoved, dialogs, snackBar, eventsForCustomTimelines,
                   eventlines, lastDeleted>>

AddCustomTimeline(id) ==
    /\ CanAdd
    /\ LET st == addCustomTimeline([cards |-> cards, displayed |-> displayedConcepts],
                                   id)
       IN /\ cards' = st.cards
          /\ displayedConcepts' = st.displayed
    /\ lastAction' = [op |-> "addCustomTimeline", ref |-> Len(cards) + 1, arg |-> id]
    /\ undoBase' = <<>>
    /\ UNCHANGED <<recentlyRemoved, dialogs, snackBar, eventsForCustomTimelines,
                   eventlines, lastDeleted>>

AddConceptCard(label, id) ==
    /\ CanAdd
    /\ LET st == addConceptCard([cards |-> cards, displayed |-> displayedConcepts],
                                label, id)
       IN /\ cards' = st.cards
          /\ displayedConcepts' = st.displayed
    /\ lastAction' = [op |-> "addConceptCard", ref |-> Len(cards) + 1, arg |-> id]
    /\ undoBase' = <<>>
    /\ UNCHANGED <<recentlyRemoved, dialogs, snackBar, eventsForCustomTimelines,
                   eventlines, lastDeleted>>

\* The dragula drop event of the card el, whose next sibling in the page is now
\* the card sibling (null at the bottom of the list).
Drop(el, sibling) ==
    /\ el \in DisplayedIds
    /\ sibling \in (DisplayedIds \ {el}) \cup {Null}
    /\ displayedConcepts' = DropResult(cards, displayedConcepts, el, sibling)
    /\ lastAction' = [op |-> "drop",
                      ref |-> At(displayedConcepts,
                                 IndexOf(IdsOf(cards, displayedConcepts), el)),
                      arg |-> sibling]
    /\ undoBase' = <<>>
    /\ UNCHANGED <<cards, recentlyRemoved, dialogs, snackBar,
                   eventsForCustomTimelines, eventlines, lastDeleted>>

\* What the component shows and stores: the displayed cards with their fields,
\* the undo buffer, the event lines and the snack bar.
Shown ==
    [displayed |-> [i \in 1..Len(displayedConcepts) |-> cards[displayedConcepts[i]]],
     order |-> displayedConcepts,
     removed |-> recentlyRemoved,
     events |-> eventsForCustomTimelines,
     lines |-> eventlines,
     snackBar |-> snackBar]

\* removeDisplayedCard($event), up to the opening of the dialog: the card keeps
\* $event.value and the closure keeps index, concept and $event.id.
RemoveDisplayedCard(id, value) ==
    /\ id \in DisplayedIds
    /\ LET index == IndexOf(IdsOf(cards, displayedConcepts), id)
           concept == At(displayedConcepts, index)
       IN /\ value \in EventValues(cards[concept].concept)
          /\ cards' = [cards EXCEPT ![concept].value = value]
          /\ dialogs' = Append(dialogs, [index |-> index, concept |-> concept,
                                         id |-> id, before |-> Shown])
          /\ lastAction' = [op |-> "removeDisplayedCard", ref |-> concept, arg |-> id]
    /\ UNCHANGED <<displayedConcepts, recentlyRemoved, snackBar,
                   eventsForCustomTimelines, eventlines, undoBase, lastDeleted>>

\* The afterClosed callback of the k-th open dialog, with the dialog's result.
AfterClosed(k, result) ==
    /\ k \in 1..Len(dialogs)
    /\ LET d == dialogs[k]
           upd == updateEventLines(eventsForCustomTimelines, d.id, UndefinedValue)
       IN /\ dialogs' = Splice(dialogs, k - 1, 1, <<>>)
          /\ IF result
             THEN /\ displayedConcepts' = Splice(displayedConcepts, d.index, 1, <<>>)
                  /\ recentlyRemoved' = RemovedEntry(recentlyRemoved, d.index, d.concept)
                  /\ snackBar' = TRUE
                  /\ IF MapHas(eventsForCustomTimelines, d.id)
                     THEN /\ eventsForCustomTimelines' = upd.events
                          /\ eventlines' = upd.lines
                     ELSE UNCHANGED <<eventsForCustomTimelines, eventlines>>
                  /\ undoBase' = displayedConcepts
                  /\ lastDeleted' = d.concept
                  /\ lastAction' = [op |-> "confirm", ref |-> d.concept, arg |-> d.id]
             ELSE /\ lastAction' = [op |-> "cancel", ref |-> d.concept, arg |-> d.id]
                  /\ UNCHANGED <<displayedConcepts, recentlyRemoved, snackBar,
                                 eventsForCustomTimelines, eventlines, undoBase,
                                 lastDeleted>>
    /\ UNCHANGED cards

\* The snack bar's onAction callback (Undo); the action dismisses the snack bar.
Undo ==
    /\ snackBar
    /\ snackBar' = FALSE
    /\ LET st == UndoLoop(cards, recentlyRemoved, SortAsc(DOMAIN recentlyRemoved),
                          [displayed |-> displayedConcepts,
                           events |-> eventsForCustomTimelines,
                           lines |-> eventlines])
       IN /\ displayedConcepts' = st.displayed
          /\ eventsForCustomTimelines' = st.events
          /\ eventlines' = st.lines
    /\ lastAction' = [op |-> "undo", ref |-> 0, arg |-> Undefined]
    /\ UNCHANGED <<cards, recentlyRemoved, dialogs, undoBase, lastDeleted>>

\* The snack bar is dismissed after DISPLAY_TIME.
SnackBarTimeout ==
    /\ snackBar
    /\ snackBar' = FALSE
    /\ lastAction' = [op |-> "timeout", ref |-> 0, arg |-> Undefined]
    /\ UNCHANGED <<cards, displayedConcepts, recentlyRemoved, dialogs,
                   eventsForCustomTimelines, eventlines, undoBase, lastDeleted>>

\* A displayed custom timeline card reports its edited data.
UpdateEventLines(id, data) ==
    /\ id \in DisplayedIds
    /\ \E i \in 1..Len(displayedConcepts) :
          /\ cards[displayedConcepts[i]].id = id
          /\ cards[displayedConcepts[i]].concept = "customTimeline"
    /\ LET upd == updateEventLines(eventsForCustomTimelines, id, data)
       IN /\ eventsForCustomTimelines' = upd.events
          /\ eventlines' = upd.lines
    /\ lastAction' = [op |-> "updateEventLines", ref |-> 0, arg |-> id]
    /\ UNCHANGED <<cards, displayedConcepts, recentlyRemoved, dialogs, snackBar,
                   undoBase, lastDeleted>>

(* ----------------------------- FHIR service ---------------------------- *)
\* ObservationStatus.EnteredInError and two other statuses of a resource.
EnteredInError == "entered-in-error"
Statuses == {"final", "preliminary", EnteredInError}

\* The resources a fetchAll or read resolves to: a resource has a status, and
\* the constructor of its record class throws on a malformed one.
Raws ==
    {[status |-> st, malformed |-> FALSE] : st \in Statuses}
        \cup {[status |-> "final", malformed |-> TRUE]}

RECURSIVE SeqsUpTo(_, _)
SeqsUpTo(S, n) ==
    IF n = 0 THEN {<<>>}
    ELSE LET shorter == SeqsUpTo(S, n - 1)
         IN shorter \cup {Append(q, x) : q \in {r \in shorter : Len(r) = n - 1}, x \in S}

\* The result lists of a fetchAll.
ResultLists == SeqsUpTo(Raws, MaxResults)

\* What the API and the SMART client reject with.
ApiRejections == {"http-404", "http-500"}
ReadyError == "oauth2-error"
ConstructionError == "construction-error"

\* The period of the encounter getEncountersForPatient returns, as yyyymmdd.
EncounterStart == 20181001
EncounterEnd == 20181010

\* Date ranges a caller asks for, as yyyymmdd days; NoRange is a call without one.
SampleDays == {20180901, 20181005, 20181101}
DateRanges ==
    {[given |-> TRUE, start |-> r[1], end |-> r[2]] :
        r \in {q \in SampleDays \X SampleDays : q[1] <= q[2]}}
NoRange == [given |-> FALSE, start |-> 20180901, end |-> 20180901]
APP_TIMESPAN == [given |-> TRUE, start |-> 20180901, end |-> 20181101]

\* The methods that fetch through the SMART API and return their data.
DataMethods ==
    {"getObservationsWithCode", "getMedicationOrderWithId",
     "getMedicationAdministrationsWithOrder"}
\* The methods that resolve at once, without the API.
StaticMethods == {"getMedicationAdministrationsWithCode", "getDiagnosticReports"}
ApiMethods == DataMethods \cup {"saveStaticNote"}

\* The API request a method issues.
RequestType(method) ==
    IF method = "getMedicationOrderWithId" THEN "read"
    ELSE IF method = "saveStaticNote" THEN "create"
    ELSE "fetchAll"

\* Promise states and values. A value is undefined or an array of records.
Pending == [state |-> "pending", value |-> [kind |-> "none", items |-> <<>>],
            reason |-> "none"]
Fulfilled(v) == [state |-> "fulfilled", value |-> v, reason |-> "none"]
Rejected(r) ==
    [state |-> "rejected", value |-> [kind |-> "none", items |-> <<>>], reason |-> r]
UndefinedResult == [kind |-> "undefined", items |-> <<>>]
ArrayOf(items) == [kind |-> "array", items |-> items]
ObjectOf(item) == [kind |-> "object", items |-> <<item>>]

\* new Observation(result) and the other record constructors: the record keeps
\* the resource it was built from.
Construct(class, raw) == [class |-> class, status |-> raw.status, from |-> raw]
Throws(results) == \E i \in 1..Len(results) : results[i].malformed

\* results.map(result => new C(result))
MapConstruct(class, results) ==
    [i \in 1..Len(results) |-> Construct(class, results[i])]

\* .filter(result => result.status !== ObservationStatus.EnteredInError)
NotEnteredInError_OnlyFinal(o) == o.status = "final"
NotEnteredInError(o) == o.status # EnteredInError
FilterObservations(obs) == SelectSeq(obs, NotEnteredInError)

\* The fulfilment callbacks of the three data methods: the promise the callback
\* settles. An exception in the callback rejects the promise.
OnResults(method, results) ==
    IF Throws(results) THEN Rejected(ConstructionError)
    ELSE IF method = "getObservationsWithCode"
    THEN Fulfilled(ArrayOf(FilterObservations(MapConstruct("Observation", results))))
    ELSE IF method = "getMedicationOrderWithId"
    THEN Fulfilled(ObjectOf(Construct("MedicationOrder", results[1])))
    ELSE Fulfilled(UndefinedResult)

\* The rejection callback: logError(rejection); throw rejection.
OnRejection_Swallow(log, k, rejection) ==
    [log |-> Append(log, [call |-> k, reason |-> rejection]),
     promise |-> Fulfilled(UndefinedResult)]
OnRejection(log, k, rejection) ==
    [log |-> Append(log, [call |-> k, reason |-> rejection]),
     promise |-> Rejected(rejection)]

\* smartApiPromise.then(smartApi => ...): the callback runs once the promise is
\* fulfilled.
ThenRuns_Unready(p) == TRUE
ThenRuns(p) == p = "fulfilled"

\* new Encounter({... period ...}): the one encounter the method returns.
TheEncounter ==
    [class |-> "Encounter", period |-> [start |-> EncounterStart, end |-> EncounterEnd]]

InitFhir ==
    /\ smartApiPromise = "pending"
    /\ calls = <<>>
    /\ requests = <<>>
    /\ errorLog = <<>>

NewCall(method, dateRange, promise, stage) ==
    [method |-> method, dateRange |-> dateRange, stage |-> stage,
     calledWhile |-> smartApiPromise, results |-> <<>>, api |-> "none",
     promise |-> promise]

\* oauth2.ready calls its success callback: smartApiPromise is fulfilled.
Ready ==
    /\ smartApiPromise = "pending"
    /\ smartApiPromise' = "fulfilled"
    /\ UNCHANGED <<calls, requests, errorLog>>

\* oauth2.ready calls its error callback: smartApiPromise is rejected.
ReadyFails ==
    /\ smartApiPromise = "pending"
    /\ smartApiPromise' = "rejected"
    /\ UNCHANGED <<calls, requests, errorLog>>

\* A call of a method that goes through smartApiPromise.then.
CallApiMethod(method) ==
    /\ Len(calls) < MaxCalls
    /\ method \in ApiMethods
    /\ calls' = Append(calls, NewCall(method, NoRange, Pending, "waiting"))
    /\ UNCHANGED <<smartApiPromise, requests, errorLog>>

\* getEncountersForPatient(dateRange): resolves at once to the one encounter.
CallGetEncountersForPatient(dateRange) ==
    /\ Len(calls) < MaxCalls
    /\ calls' = Append(calls, NewCall("getEncountersForPatient", dateRange,
                                      Fulfilled(ArrayOf(<<TheEncounter>>)), "settled"))
    /\ UNCHANGED <<smartApiPromise, requests, errorLog>>

\* getMedicationAdministrationsWithCode, getDiagnosticReports: Promise.resolve([]).
CallStaticMethod(method) ==
    /\ Len(calls) < MaxCalls
    /\ method \in StaticMethods
    /\ calls' = Append(calls, NewCall(method, NoRange, Fulfilled(ArrayOf(<<>>)),
                                      "settled"))
    /\ UNCHANGED <<smartApiPromise, requests, errorLog>>

\* The then-callback of call k runs and issues the API request.
IssueRequest(k) ==
    /\ k \in 1..Len(calls)
    /\ calls[k].stage = "waiting"
    /\ smartApiPromise # "rejected"
    /\ ThenRuns(smartApiPromise)
    /\ requests' = Append(requests, [type |-> RequestType(calls[k].method), call |-> k,
                                     smartApi |-> smartApiPromise])
    /\ calls' = [calls EXCEPT ![k].stage = "requested"]
    /\ UNCHANGED <<smartApiPromise, errorLog>>

\* smartApiPromise is rejected: then() has no rejection callback, so the
\* returned promise rejects with the same error.
ReadyRejectionPropagates(k) ==
    /\ k \in 1..Len(calls)
    /\ calls[k].stage = "waiting"
    /\ smartApiPromise = "rejected"
    /\ calls' = [calls EXCEPT ![k].stage = "settled",
                              ![k].promise = Rejected(ReadyError)]
    /\ UNCHANGED <<smartApiPromise, requests, errorLog>>

\* The fetchAll / read of call k resolves and the fulfilment callback runs.
ApiResolves(k, results) ==
    /\ k \in 1..Len(calls)
    /\ calls[k].stage = "requested"
    /\ calls[k].method \in DataMethods
    /\ calls[k].method = "getMedicationOrderWithId" => Len(results) = 1
    /\ calls' = [calls EXCEPT ![k].stage = "settled",
                              ![k].api = "fulfilled",
                              ![k].results = results,
                              ![k].promise = OnResults(calls[k].method, results)]
    /\ UNCHANGED <<smartApiPromise, requests, errorLog>>

\* The fetchAll / read of call k rejects and the rejection callback runs.
ApiRejects(k, rejection) ==
    /\ k \in 1..Len(calls)
    /\ calls[k].stage = "requested"
    /\ calls[k].method \in DataMethods
    /\ LET out == OnRejection(errorLog, k, rejection)
       IN /\ errorLog' = out.log
          /\ calls' = [calls EXCEPT ![k].stage = "settled",
                                    ![k].api = rejection,
                                    ![k].promise = out.promise]
    /\ UNCHANGED <<smartApiPromise, requests>>

Fhir(A) == A /\ UNCHANGED <<cardVars, steps>>

NextFhir ==
    \/ Fhir(Ready)
    \/ Fhir(ReadyFails)
    \/ \E method \in ApiMethods : Fhir(CallApiMethod(method))
    \/ \E dateRange \in DateRanges \cup {NoRange} :
          Fhir(CallGetEncountersForPatient(dateRange))
    \/ \E method \in StaticMethods : Fhir(CallStaticMethod(method))
    \/ \E k \in 1..Len(calls) : Fhir(IssueRequest(k))
    \/ \E k \in 1..Len(calls) : Fhir(ReadyRejectionPropagates(k))
    \/ \E k \in 1..Len(calls), results \in ResultLists : Fhir(ApiResolves(k, results))
    \/ \E k \in 1..Len(calls), rejection \in ApiRejections :
          Fhir(ApiRejects(k, rejection))

\* One handler run of the card container, counted.
Tick == steps < MaxSteps /\ steps' = steps + 1

\* A user event on the page: the modal delete dialog lets none through.
User(A) == NoDialog /\ Tick /\ A /\ UNCHANGED fhirVars

\* A callback of the dialog or of the snack bar.
Callback(A) == Tick /\ A /\ UNCHANGED fhirVars

Init == InitCards /\ InitFhir

Next ==
    \/ \E id \in AddIds : User(AddTextbox(id))
    \/ \E id \in AddIds : User(AddCustomTimeline(id))
    \/ \E label \in Labels, id \in AddIds : User(AddConceptCard(label, id))
    \/ \E el \in DisplayedIds, sibling \in DisplayedIds \cup {Null} :
          User(Drop(el, sibling))
    \/ \E id \in DisplayedIds, value \in {DataThree, UndefinedValue} :
          User(RemoveDisplayedCard(id, value))
    \/ User(Undo)
    \/ \E k \in 1..Len(dialogs), result \in BOOLEAN : Callback(AfterClosed(k, result))
    \/ Callback(SnackBarTimeout)

Spec == Init /\ [][Next]_vars

\* The data a custom timeline reports when the user has edited its points.
EditedDatas == {DataTwo, DataThree}

\* The handlers of Next and the custom timelines' edits.
NextEvents ==
    \/ Next
    \/ \E id \in DisplayedIds, data \in EditedDatas : User(UpdateEventLines(id, data))

SpecEvents == Init /\ [][NextEvents]_vars

\* A handler run when the page lets events through while a delete dialog is
\* open: the dialog's close event comes on a later turn of the event loop, and
\* the handlers of the component run in any order until then.
Async(A) == Tick /\ A /\ UNCHANGED fhirVars

NextAsync ==
    \/ \E id \in AddIds : Async(AddTextbox(id))
    \/ \E id \in AddIds : Async(AddCustomTimeline(id))
    \/ \E label \in Labels, id \in AddIds : Async(AddConceptCard(label, id))
    \/ \E el \in DisplayedIds, sibling \in DisplayedIds \cup {Null} :
          Async(Drop(el, sibling))
    \/ \E id \in DisplayedIds, value \in {DataThree, UndefinedValue} :
          Async(RemoveDisplayedCard(id, value))
    \/ Async(Undo)
    \/ \E k \in 1..Len(dialogs), result \in BOOLEAN : Async(AfterClosed(k, result))
    \/ Async(SnackBarTimeout)

SpecAsync == Init /\ [][NextAsync]_vars

SpecFhir == Init /\ [][NextFhir]_vars

\* The event loop runs every queued then-callback, and the API client settles
\* every request it was given.
ApiSettles(k) ==
    \/ \E results \in ResultLists : Fhir(ApiResolves(k, results))
    \/ \E rejection \in ApiRejections : Fhir(ApiRejects(k, rejection))

SpecFhirFair ==
    /\ Init
    /\ [][NextFhir]_vars
    /\ \A k \in 1..MaxCalls : WF_vars(Fhir(IssueRequest(k)))
    /\ \A k \in 1..MaxCalls : WF_vars(Fhir(ReadyRejectionPropagates(k)))
    /\ \A k \in 1..MaxCalls : WF_vars(ApiSettles(k))

(* ------------------------- card container claims ---------------------- *)
\* The list s with every occurrence of the card x taken out.
Without(s, x) == SelectSeq(s, LAMBDA y : y # x)

Occurrences(s, x) == Cardinality({i \in 1..Len(s) : s[i] = x})

AddOps == {"addTextbox", "addCustomTimeline", "addConceptCard"}

\* C1: confirming the delete dialog of a displayed card c at index i leaves the
\* list without c, the other cards in their order; an Undo that runs before any
\* other list operation puts the same card c back at index i, so the list is
\* the list before the deletion.
C1_ConfirmRemovesCard ==
    lastAction'.op = "confirm" =>
        LET c == lastAction'.ref
        IN /\ Occurrences(displayedConcepts, c) = 1
           /\ displayedConcepts' = Without(displayedConcepts, c)
           /\ cards' = cards
C1_UndoRestores ==
    (lastAction'.op = "undo" /\ undoBase # <<>>) =>
        /\ displayedConcepts' = undoBase
        /\ cards' = cards
        /\ \A k \in DOMAIN recentlyRemoved :
              IndexOf(displayedConcepts', recentlyRemoved[k]) = k
C1_DeleteUndoRoundTrip == [][C1_ConfirmRemovesCard /\ C1_UndoRestores]_vars

\* A card deleted from the middle of the list has been restored by Undo.
C1_Witness ==
    /\ lastAction.op = "undo"
    /\ undoBase # <<>>
    /\ displayedConcepts = undoBase
    /\ \E k \in DOMAIN recentlyRemoved :
          /\ k > 0
          /\ k < Len(displayedConcepts) - 1
          /\ At(displayedConcepts, k) = recentlyRemoved[k]

\* The (id, concept) pairs of the displayed cards.
IdConceptPairs(cs, dc) == {<<cs[dc[i]].id, cs[dc[i]].concept>> : i \in 1..Len(dc)}

\* C2: after any sequence of add, drag reorder, confirmed delete and undo the
\* ids of the displayed cards are pairwise distinct, and a drop leaves the set
\* of (id, concept) pairs of the displayed cards as it was.
C2_IdsDistinct ==
    \A i, j \in 1..Len(displayedConcepts) :
        i # j => IdsOf(cards, displayedConcepts)[i] # IdsOf(cards, displayedConcepts)[j]
C2_DropKeepsPairs ==
    lastAction'.op = "drop" =>
        /\ IdConceptPairs(cards', displayedConcepts')
              = IdConceptPairs(cards, displayedConcepts)
        /\ Len(displayedConcepts') = Len(displayedConcepts)
        /\ \A i \in 1..Len(displayedConcepts') : displayedConcepts'[i] # 0
C2_IdsUniqueAndStable == [](C2_IdsDistinct) /\ [][C2_DropKeepsPairs]_vars

\* A card was dropped in a list that an add, a confirmed delete and an undo
\* have changed before.
C2_Witness ==
    /\ lastAction.op = "drop"
    /\ Len(cards) > Len(Constructed.cards)
    /\ \E k \in DOMAIN recentlyRemoved :
          Occurrences(displayedConcepts, recentlyRemoved[k]) = 1
    /\ displayedConcepts # Constructed.displayed
    /\ C2_IdsDistinct

\* C3: every key of recentlyRemoved is an insertion position of the displayed
\* list (0 <= k <= length), and the undo handler leaves the restored card at
\* exactly that index.
C3_KeysValid ==
    \A k \in DOMAIN recentlyRemoved : 0 <= k /\ k <= Len(displayedConcepts)
C3_UndoPlacesAtKey ==
    lastAction'.op = "undo" =>
        \A k \in DOMAIN recentlyRemoved : At(displayedConcepts', k) = recentlyRemoved[k]
C3_UndoKeysArePositions == [](C3_KeysValid) /\ [][C3_UndoPlacesAtKey]_vars

\* The last card of the list was deleted, so the key is the length of the
\* list, and the snack bar offers the undo.
C3_Witness ==
    /\ snackBar
    /\ lastAction.op = "confirm"
    /\ \E k \in DOMAIN recentlyRemoved : k = Len(displayedConcepts) /\ k > 0

\* C4: an add method called without an id puts the new card at index 0; called
\* with the id of the displayed card at index j it puts the new card at index
\* j + 1. The list grows by that one card and the other cards keep their order.
C4_AddPosition ==
    lastAction'.op \in AddOps =>
        LET new == lastAction'.ref
            id == lastAction'.arg
            j == IndexOf(IdsOf(cards, displayedConcepts), id)
        IN /\ Len(displayedConcepts') = Len(displayedConcepts) + 1
           /\ Occurrences(displayedConcepts, new) = 0
           /\ Without(displayedConcepts', new) = displayedConcepts
           /\ id = Undefined => IndexOf(displayedConcepts', new) = 0
           /\ (id # Undefined /\ j >= 0) => IndexOf(displayedConcepts', new) = j + 1
C4_InsertionPosition == [][C4_AddPosition]_vars

\* A concept card was added below a card that is not the first of the list.
C4_Witness ==
    /\ lastAction.op = "addConceptCard"
    /\ lastAction.arg # Undefined
    /\ IndexOf(displayedConcepts, lastAction.ref) >= 2
    /\ IndexOf(displayedConcepts, lastAction.ref) < Len(displayedConcepts) - 1

\* C11: the card removed when a delete dialog is confirmed is exactly the card
\* whose delete button was clicked, and no other card is removed, whatever
\* list operations (add, drop, confirmation of another dialog, undo) ran
\* between the click and the close event.
C11_ConfirmRemovesClicked ==
    lastAction'.op = "confirm" =>
        displayedConcepts' = Without(displayedConcepts, lastAction'.ref)
C12_DropPlaces ==
    lastAction'.op = "drop" =>
        LET d == lastAction'.ref
            s == lastAction'.arg
            before == displayedConcepts
            after == displayedConcepts'
            pos == IndexOf(after, d)
            old == IndexOf(before, d)
            ownPlace == IF old = Len(before) - 1 THEN s = Null
                        ELSE s = cards[At(before, old + 1)].id
        IN /\ Len(after) = Len(before)
           /\ \A c \in 1..Len(cards) : Occurrences(after, c) = Occurrences(before, c)
           /\ Without(after, d) = Without(before, d)
           /\ s = Null => pos = Len(after) - 1
           /\ s # Null => /\ pos + 1 < Len(after)
                          /\ cards[At(after, pos + 1)].id = s
           /\ ownPlace => after = before
C12_DragReorder == [][C12_DropPlaces]_vars

\* The first event was a drop that moved a card down the list, to a place
\* above another card.
C12_Witness ==
    /\ lastAction.op = "drop"
    /\ lastAction.arg # Null
    /\ steps = 1
    /\ displayedConcepts # Constructed.displayed
    /\ IndexOf(displayedConcepts, lastAction.ref)
          > IndexOf(Constructed.displayed, lastAction.ref)
    /\ cards[At(displayedConcepts, IndexOf(displayedConcepts, lastAction.ref) + 1)].id
          = lastAction.arg

\* C13: Undo reverses only the most recent deletion, and at most once: the
\* Undo that follows the confirmed deletions of A and then B puts back B and
\* nothing else; a card that was taken off the list comes back only by the Undo
\* of its own deletion, that deletion being the most recent one; and no card is
\* ever in the displayed list twice.
C13_UndoReinstatesLast ==
    lastAction'.op = "undo" =>
        /\ lastDeleted # 0
        /\ Occurrences(displayedConcepts, lastDeleted) = 0
        /\ Occurrences(displayedConcepts', lastDeleted) = 1
        /\ Without(displayedConcepts', lastDeleted) = displayedConcepts
C13_OnlyUndoReinstates ==
    \A c \in 1..Len(cards) :
        Occurrences(displayedConcepts', c) > Occurrences(displayedConcepts, c) =>
            /\ lastAction'.op = "undo"
            /\ c = lastDeleted
C13_NeverTwice ==
    \A c \in 1..Len(cards) : Occurrences(displayedConcepts, c) <= 1
C13_UndoOnlyMostRecentOnce ==
    /\ [][C13_UndoReinstatesLast /\ C13_OnlyUndoReinstates]_vars
    /\ [](C13_NeverTwice)

\* Card A was deleted, then card B, and the Undo has put B back: A is off the
\* list.
C13_Witness ==
    /\ lastAction.op = "undo"
    /\ lastDeleted # 0
    /\ Occurrences(displayedConcepts, lastDeleted) = 1
    /\ \E a \in 1..Len(cards) :
          /\ a # lastDeleted
          /\ Occurrences(displayedConcepts, a) = 0

\* The lines of the map's entries in the map's order, the entry of the timeline
\* id counted with the lines own.
RECURSIVE LinesWith(_, _, _)
LinesWith(m, id, own) ==
    IF m = <<>> THEN <<>>
    ELSE (IF Head(m).id = id THEN own ELSE Head(m).lines) \o LinesWith(Tail(m), id, own)

\* The lines the map stores for the timeline id.
StoredLines(m, id) == (CHOOSE i \in 1..Len(m) : m[i].id = id)

\* C14: when the delete dialog of a custom timeline that has event lines is
\* confirmed, eventlines lose the lines of that timeline and keep the lines of
\* every other timeline; after the Undo of that deletion the lines computed
\* from the data the timeline passed with its delete event are in eventlines
\* again, with the lines of the other timelines.
C14_ConfirmDropsLines ==
    (/\ lastAction'.op = "confirm"
     /\ cards[lastAction'.ref].concept = "customTimeline"
     /\ MapHas(eventsForCustomTimelines, lastAction'.arg)) =>
        eventlines' = LinesWith(eventsForCustomTimelines, lastAction'.arg, <<>>)
C14_UndoRestoresLines ==
    (/\ lastAction'.op = "undo"
     /\ lastDeleted # 0
     /\ cards[lastDeleted].concept = "customTimeline"
     /\ MapHas(eventsForCustomTimelines, cards[lastDeleted].id)) =>
        LET id == cards[lastDeleted].id
            own == EventLinesOf(cards[lastDeleted].value)
        IN /\ MapHas(eventsForCustomTimelines', id)
           /\ eventsForCustomTimelines'[StoredLines(eventsForCustomTimelines', id)].lines
                 = own
           /\ eventlines' = LinesWith(eventsForCustomTimelines, id, own)
C14_EventLinesFollowDeleteUndo ==
    [][C14_ConfirmDropsLines /\ C14_UndoRestoresLines]_vars

\* The delete dialog of a custom timeline with event lines was confirmed while
\* another timeline has event lines: the deleted timeline's entry is empty, the
\* other's lines are shown, and the snack bar offers the Undo.
C14_Witness ==
    /\ lastAction.op = "confirm"
    /\ lastAction.ref = lastDeleted
    /\ cards[lastDeleted].concept = "customTimeline"
    /\ Occurrences(displayedConcepts, lastDeleted) = 0
    /\ MapHas(eventsForCustomTimelines, cards[lastDeleted].id)
    /\ eventsForCustomTimelines[StoredLines(eventsForCustomTimelines,
                                            cards[lastDeleted].id)].lines = <<>>
    /\ eventlines # <<>>
    /\ snackBar

\* The lines of the first n entries of the map, entry after entry.
RECURSIVE ConcatFirst(_, _)
ConcatFirst(m, n) == IF n = 0 THEN <<>> ELSE ConcatFirst(m, n - 1) \o m[n].lines

\* C15: in every reachable state eventlines is the concatenation, in the order
\* of the map (the order in which the ids were first set), of the lists that
\* eventsForCustomTimelines stores, each id stored once: every line shown is a
\* line of a stored entry and every line of a stored entry is shown.
C15_EventLinesAreTheStoredLines ==
    /\ eventlines = ConcatFirst(eventsForCustomTimelines, Len(eventsForCustomTimelines))
    /\ \A i, j \in 1..Len(eventsForCustomTimelines) :
          i # j => eventsForCustomTimelines[i].id # eventsForCustomTimelines[j].id
    /\ \A i \in 1..Len(eventlines) :
          \E e \in 1..Len(eventsForCustomTimelines) :
             \E j \in 1..Len(eventsForCustomTimelines[e].lines) :
                eventsForCustomTimelines[e].lines[j] = eventlines[i]
    /\ \A e \in 1..Len(eventsForCustomTimelines) :
          \A j \in 1..Len(eventsForCustomTimelines[e].lines) :
             \E i \in 1..Len(eventlines) :
                eventlines[i] = eventsForCustomTimelines[e].lines[j]

\* Two custom timelines have event lines, the first one line and the second
\* two.
C15_Witness ==
    /\ Len(eventsForCustomTimelines) = 2
    /\ Len(eventsForCustomTimelines[1].lines) = 1
    /\ Len(eventsForCustomTimelines[2].lines) = 2
    /\ Len(eventlines) = 3

\* C16: when a delete dialog closes without confirmation, the displayed list
\* (its order, its cards and the stored fields of each card), recentlyRemoved,
\* eventsForCustomTimelines and eventlines are what they were before the delete
\* button was clicked, and no snack bar is opened.
C16_CancelRestores ==
    lastAction'.op = "cancel" =>
        \A k \in 1..Len(dialogs) :
            dialogs' = Splice(dialogs, k - 1, 1, <<>>) =>
                /\ Shown'.order = dialogs[k].before.order
                /\ Shown'.displayed = dialogs[k].before.displayed
                /\ Shown'.removed = dialogs[k].before.removed
                /\ Shown'.events = dialogs[k].before.events
                /\ Shown'.lines = dialogs[k].before.lines
                /\ snackBar' => snackBar
C16_CancelChangesNothing == [][C16_CancelRestores]_vars

\* The annotation times of data, none when there is no data.
TimesOf(data) ==
    IF data.type = "CustomizableData" THEN DOMAIN data.annotations ELSE {}

\* The annotation times of data but the earliest.
LaterTimes(data) ==
    {t \in TimesOf(data) : \E u \in TimesOf(data) : u < t}

\* The ids of the map's entries.
MapIds(m) == {m[i].id : i \in 1..Len(m)}

\* The timeline ids and the data updateEventLines is applied to.
C17_Ids == MapIds(eventsForCustomTimelines) \cup {cards[c].id : c \in 1..Len(cards)}
C17_Datas == CustomizableDatas \cup {UndefinedValue}

\* C17: updateEventLines({id, data}) stores for the timeline id one event line
\* per annotation time of data but the earliest, in ascending order of time,
\* each with the time as value and the title and the colour class of the
\* annotation at that time; without data it stores the empty list; the lists
\* stored for the other timeline ids stay as they are.
C17_StoredEventLines ==
    \A id \in C17_Ids, data \in C17_Datas :
        LET m == eventsForCustomTimelines
            after == updateEventLines(m, id, data).events
            lines == after[StoredLines(after, id)].lines
        IN /\ MapIds(after) = MapIds(m) \cup {id}
           /\ Len(after) = Cardinality(MapIds(after))
           /\ Len(lines) = Cardinality(LaterTimes(data))
           /\ {lines[i].value : i \in 1..Len(lines)} = LaterTimes(data)
           /\ \A i, j \in 1..Len(lines) : i < j => lines[i].value < lines[j].value
           /\ \A i \in 1..Len(lines) :
                 LET ann == data.annotations[lines[i].value]
                 IN /\ lines[i].text = ann.title
                    /\ lines[i].class
                          = <<"c", "o", "l", "o", "r">> \o SubSeq(ann.color, 2, Len(ann.color))
                    /\ DOMAIN lines[i] = {"value", "text", "class"}
           /\ data = UndefinedValue => lines = <<>>
           /\ \A k \in MapIds(m) \ {id} :
                 after[StoredLines(after, k)].lines = m[StoredLines(m, k)].lines

\* A custom timeline reported data of three annotations while another
\* timeline has an event line: the map stores two lines for it.
C17_Witness ==
    /\ lastAction.op = "updateEventLines"
    /\ Len(eventsForCustomTimelines) = 2
    /\ MapHas(eventsForCustomTimelines, lastAction.arg)
    /\ Len(eventsForCustomTimelines[StoredLines(eventsForCustomTimelines,
                                                lastAction.arg)].lines) = 2
    /\ \E e \in 1..2 :
          /\ eventsForCustomTimelines[e].id # lastAction.arg
          /\ Len(eventsForCustomTimelines[e].lines) = 1

\* The labels of the original concepts with a group to show by default, in
\* the order of originalConcepts.
RECURSIVE DefaultLabels(_)
DefaultLabels(concepts) ==
    IF concepts = <<>> THEN <<>>
    ELSE (IF TRUE \in {Head(concepts).resourceCodeGroups[i] :
                          i \in 1..Len(Head(concepts).resourceCodeGroups)}
          THEN <<Head(concepts).label>> ELSE <<>>)
         \o DefaultLabels(Tail(concepts))

\* C18: right after construction the displayed list is a custom timeline card
\* at index 0, a textbox card at index 1, then one card for each original
\* concept with a group marked showByDefault, in the order of originalConcepts,
\* and no card of another concept; the undo buffer and the event lines are
\* empty.
C18_InitialCards ==
    lastAction.op = "constructor" =>
        LET shown == [i \in 1..Len(displayedConcepts) |-> cards[displayedConcepts[i]]]
        IN /\ Len(shown) = 2 + Len(DefaultLabels(OriginalConcepts))
           /\ shown[1].concept = "customTimeline"
           /\ shown[2].concept = "textbox"
           /\ \A i \in 1..Len(DefaultLabels(OriginalConcepts)) :
                 shown[i + 2].concept = DefaultLabels(OriginalConcepts)[i]
           /\ \A i, j \in 1..Len(shown) : i # j => shown[i].id # shown[j].id
           /\ DOMAIN recentlyRemoved = {}
           /\ eventsForCustomTimelines = <<>>
           /\ eventlines = <<>>
           /\ ~snackBar

\* The constructed component, before any event: three cards, the last one the
\* card of the concept that has one group of two marked showByDefault.
C18_Witness ==
    /\ lastAction.op = "constructor"
    /\ steps = 0
    /\ Len(displayedConcepts) = 3
    /\ cards[displayedConcepts[3]].concept = "Vitals"

(* --------------------------- FHIR service claims ---------------------- *)
\* The entries of the error log that call k wrote.
LogEntries(k) == {i \in 1..Len(errorLog) : errorLog[i].call = k}

\* C5: when the fetchAll / read of a data method is rejected, the rejection is
\* logged exactly once and the returned promise rejects with that same value; it
\* is not fulfilled.
C5_ApiRejectionLoggedAndRethrown ==
    \A k \in 1..Len(calls) :
        (calls[k].method \in DataMethods /\ calls[k].api \in ApiRejections) =>
            /\ calls[k].promise = Rejected(calls[k].api)
            /\ Cardinality(LogEntries(k)) = 1
            /\ \A i \in LogEntries(k) : errorLog[i].reason = calls[k].api

\* The API rejected a fetch of medication administrations with a server error.
C5_Witness ==
    \E k \in 1..Len(calls) :
        /\ calls[k].method = "getMedicationAdministrationsWithOrder"
        /\ calls[k].api = "http-500"
        /\ calls[k].promise.state = "rejected"

\* C6: every rejection a caller observes from a data method was logged through
\* the debug service: on rejection of the API call, on rejection of the SMART
\* API readiness promise, and on an exception thrown by a record constructor.
C6_EveryRejectionLogged ==
    \A k \in 1..Len(calls) :
        (calls[k].method \in DataMethods /\ calls[k].promise.state = "rejected") =>
            \E i \in LogEntries(k) : errorLog[i].reason = calls[k].promise.reason

RequestIssued(k) == \E i \in 1..Len(requests) : requests[i].call = k

\* C7: no API request is issued before the oauth2.ready success callback has
\* fired; a method called before readiness is deferred, not failed; once the
\* API is ready the request of every call is eventually issued and the promise
\* of every data method eventually settles, whenever the call was made.
C7_NoRequestBeforeReady ==
    \A i \in 1..Len(requests) : requests[i].smartApi = "fulfilled"
C7_DeferredNotFailed ==
    \A k \in 1..Len(calls) :
        (calls[k].method \in ApiMethods /\ smartApiPromise = "pending") =>
            /\ calls[k].stage = "waiting"
            /\ calls[k].promise.state = "pending"
C7_ReadyLeadsToSettled(k) ==
    (/\ k <= Len(calls)
     /\ calls[k].method \in ApiMethods
     /\ smartApiPromise = "fulfilled")
        ~> (/\ RequestIssued(k)
            /\ calls[k].method \in DataMethods => calls[k].promise.state # "pending")
C7_DeferredUntilReady ==
    /\ [](C7_NoRequestBeforeReady /\ C7_DeferredNotFailed)
    /\ \A k \in 1..MaxCalls : C7_ReadyLeadsToSettled(k)

\* A method called while the SMART API was not ready has fetched its data.
C7_Witness ==
    \E k \in 1..Len(calls) :
        /\ calls[k].method = "getObservationsWithCode"
        /\ calls[k].calledWhile = "pending"
        /\ RequestIssued(k)
        /\ calls[k].promise.state = "fulfilled"

\* C8: when the fetch of getMedicationAdministrationsWithOrder succeeds with
\* results r1..rn, the promise resolves to the n MedicationAdministration
\* records built from them, in that order.
C8_ResolvesToAdministrations ==
    \A k \in 1..Len(calls) :
        (/\ calls[k].method = "getMedicationAdministrationsWithOrder"
         /\ calls[k].api = "fulfilled"
         /\ calls[k].promise.state = "fulfilled") =>
            calls[k].promise.value
                = ArrayOf(MapConstruct("MedicationAdministration", calls[k].results))

\* The observations of a result list, entered-in-error ones left out.
RECURSIVE ExpectedObservations(_)
ExpectedObservations(results) ==
    IF results = <<>> THEN <<>>
    ELSE (IF Head(results).status = "entered-in-error" THEN <<>>
          ELSE <<[class |-> "Observation", status |-> Head(results).status,
                  from |-> Head(results)]>>)
         \o ExpectedObservations(Tail(results))

Overlaps(p, q) == p.start <= q.end /\ q.start <= p.end

\* C10: getEncountersForPatient(dateRange) resolves only to encounters whose
\* period covers some time of the range (APP_TIMESPAN without a range), so to
\* the empty list for a range that overlaps no encounter.
C10_EncountersInRange ==
    \A k \in 1..Len(calls) :
        (/\ calls[k].method = "getEncountersForPatient"
         /\ calls[k].promise.state = "fulfilled") =>
            LET range == IF calls[k].dateRange.given THEN calls[k].dateRange
                         ELSE APP_TIMESPAN
                items == calls[k].promise.value.items
            IN \A i \in 1..Len(items) : Overlaps(items[i].period, range)

====
